---------------------------- MODULE Spec2Model ----------------------------
(***************************************************************************)
(* Model of the ESA report pipeline: the job store, structure resolution,  *)
(* split, merge and QC, as implemented twice in the repository:            *)
(*   impl = "tools"  : src/tools/pdf_tools.py (LangChain agent tools)      *)
(*   impl = "server" : src/mcp_server.py      (MCP/FastAPI tool handlers)  *)
(* A PDF file is a sequence of pages; a page is [id, text] where id is the *)
(* page's position in the document it was uploaded in and text is what     *)
(* extract_text() returns for it (a sequence of characters).               *)
(***************************************************************************)
EXTENDS Integers, Sequences, FiniteSets, TLC

VARIABLES impl, jobs, files, qc_summaries, result, stage, threads, launched

vars == <<impl, jobs, files, qc_summaries, result, stage, threads, launched>>

----------------------------------------------------------------------------
(* Bounds of the model *)

\* pages held by the job store, all jobs together
MaxPages == 3

(* Inputs *)

Impls == {"tools", "server"}

\* the implementation that serves job j: the one chosen at the start or,
\* when both run side by side, the tools for "j1" and the server for "j2"
ImplOf(j) == IF impl = "both" THEN (IF j = "j1" THEN "tools" ELSE "server") ELSE impl
JobIds == {"j1", "j2"}
PageInputs == 0 .. (MaxPages + 1)

(* Program constants *)

BlankThreshold == 10
ScanLimit == 50
StoreLimit == 20
BaseConfidence == 85
Penalty == 10
ShortWritten == 10
ShortAppendices == 20

----------------------------------------------------------------------------
(* Page text and the blank test *)

NoText == << >>
TenChars == <<"x", "x", "x", "x", "x", "x", "x", "x", "x", "x">>

\* the characters str.strip() removes from both ends
IsSpace(c) == c \in {" ", "\t", "\n", "\r"}

RECURSIVE LStrip(_)
LStrip(t) == IF t # << >> /\ IsSpace(Head(t)) THEN LStrip(Tail(t)) ELSE t

RECURSIVE RStrip(_)
RStrip(t) ==
    IF t # << >> /\ IsSpace(t[Len(t)]) THEN RStrip(SubSeq(t, 1, Len(t) - 1)) ELSE t

\* a trim of the leading whitespace alone
strip_leading(t) == LStrip(t)

strip(t) == RStrip(LStrip(t))

\* `not text or len(text.strip()) < 10`
IsBlank(text) == text = << >> \/ Len(strip(text)) < BlankThreshold

----------------------------------------------------------------------------
(* Documents offered for upload: n pages, at most one of them without text *)

Page(i, t) == [id |-> i, text |-> t]

Doc(n, b) == [i \in 1 .. n |-> Page(i, IF i \in b THEN NoText ELSE TenChars)]

Docs == {Doc(n, b) : n \in 1 .. MaxPages, b \in {{}, {2}}}

(* Reports of the size of the demo's sample report. extract_text() of a    *)
(* page returns one of Texts: nothing, whitespace only, nine characters,    *)
(* nine characters inside whitespace, ten characters, or two words of four  *)
(* characters two spaces apart.                                             *)
ScenarioPages == 75

Repeat(c, n) == [i \in 1 .. n |-> c]

Spaces == <<" ", "\n">>
NineChars == Repeat("x", 9)
PaddedNine == <<" ">> \o NineChars \o <<"\n">>
Spaced == Repeat("x", 4) \o <<" ", " ">> \o Repeat("x", 4)

Texts == <<NoText, Spaces, NineChars, PaddedNine, TenChars, Spaced>>

\* every page carries text, as in create_sample_esa_report
SampleReport == [i \in 1 .. ScenarioPages |-> Page(i, TenChars)]

\* page i carries Texts[i], Texts cycling
ScannedReport ==
    [i \in 1 .. ScenarioPages |-> Page(i, Texts[((i - 1) % Len(Texts)) + 1])]

\* the pages from the 45th on carry no text
TailBlankReport ==
    [i \in 1 .. ScenarioPages |-> Page(i, IF i >= 45 THEN NoText ELSE TenChars)]

Reports == {SampleReport, ScannedReport, TailBlankReport}

\* boundaries offered for a report: the scenario's, and those on either side
\* of the thresholds of the confidence heuristic
ExecSummaryInputs == {4}
AppendixStartInputs == {4, 13, 14, 38, 55, 56, 57}

----------------------------------------------------------------------------
(* Python helpers *)

\* range(lo, hi) as the sequence lo, lo+1, ..., hi-1
range(lo, hi) == [k \in 1 .. (IF hi > lo THEN hi - lo ELSE 0) |-> lo + k - 1]

\* every reader.pages[page_num] for page_num in range(lo, hi) is in bounds
InBounds(doc, lo, hi) == \A k \in 1 .. Len(range(lo, hi)) : range(lo, hi)[k] < Len(doc)

\* [reader.pages[page_num] for page_num in range(lo, hi)], 0-indexed page_num
CopyPages(doc, lo, hi) == [k \in 1 .. Len(range(lo, hi)) |-> doc[range(lo, hi)[k] + 1]]

\* seq[:n]
Prefix(seq, n) == SubSeq(seq, 1, IF Len(seq) < n THEN Len(seq) ELSE n)

\* [i + 1 for i, x in enumerate(seq) if P(x)] for P = IsBlank on page text
RECURSIVE BlankScan(_, _)
BlankScan(doc, i) ==
    IF i > Len(doc) THEN << >>
    ELSE (IF IsBlank(doc[i].text) THEN <<i>> ELSE << >>) \o BlankScan(doc, i + 1)

----------------------------------------------------------------------------
(* Job store: _jobs, _get_job / get_job, _save_job / save_job *)

HasJob(j) == j \in DOMAIN jobs

\* `key in job` for a job that exists
Has(j, key) == HasJob(j) /\ key \in DOMAIN jobs[j]

\* dict.update: keys of data replace those of the stored job
DictUpdate(old, data) == data @@ old

\* a store that drops the split record whenever a new structure is saved
save_job_dropping_split(j, data) ==
    LET old == IF j \in DOMAIN jobs THEN jobs[j] ELSE << >>
        kept == IF "structure" \in DOMAIN data
                THEN [k \in DOMAIN old \ {"split"} |-> old[k]]
                ELSE old
    IN  (j :> DictUpdate(kept, data)) @@ jobs

\* a store that discards the QC report whenever a new structure is saved
save_job_discarding_qc(j, data) ==
    LET old == IF j \in DOMAIN jobs THEN jobs[j] ELSE << >>
        kept == IF "structure" \in DOMAIN data
                THEN [k \in DOMAIN old \ {"qc"} |-> old[k]]
                ELSE old
    IN  (j :> DictUpdate(kept, data)) @@ jobs

save_job(j, data) ==
    IF j \in DOMAIN jobs
    THEN [jobs EXCEPT ![j] = DictUpdate(jobs[j], data)]
    ELSE (j :> data) @@ jobs

Path(j, name) == <<j, name>>

WriteFile(fs, path, doc) == (path :> doc) @@ fs

\* the latest call and what it returned: whether it succeeded, its message
Response(op, j, ok, msg) == [op |-> op, job |-> j, ok |-> ok, msg |-> msg]

\* an error return that touched nothing
Fail(op, j, msg) ==
    /\ result' = Response(op, j, FALSE, msg)
    /\ UNCHANGED <<impl, jobs, files, qc_summaries, stage, threads, launched>>

\* pages of the original documents the store holds
StoredPages == LET RECURSIVE Sum(_)
                   Sum(S) == IF S = {} THEN 0
                             ELSE LET j == CHOOSE x \in S : TRUE
                                  IN  jobs[j].page_count + Sum(S \ {j})
               IN  Sum(DOMAIN jobs)

----------------------------------------------------------------------------
(* Two callers may run a split and a merge of one job at the same time;    *)
(* threads[t] holds the local variables of caller t's call in flight.       *)
Callers == {"splitter", "merger"}
Idle == [pc |-> "idle"]

(* stage[j]: how far job j's latest run of the pipeline got, a run being   *)
(* resolve, split, merge and QC called in that order on the Structure of    *)
(* the latest successful resolve; "stale" once a call used older output.    *)
AfterSplit(st) == IF st \in {"resolved", "split", "merged", "qc"} THEN "split" ELSE "stale"
AfterMerge(st) == IF st \in {"split", "merged", "qc"} THEN "merged" ELSE "stale"
AfterQC(st) == IF st \in {"merged", "qc"} THEN "qc" ELSE "stale"

Init ==
    /\ impl \in Impls
    /\ jobs = << >>
    /\ files = << >>
    /\ qc_summaries = << >>
    /\ result = Response("none", "none", TRUE, "")
    /\ stage = [j \in JobIds |-> "none"]
    /\ threads = [t \in Callers |-> Idle]
    /\ launched = << >>

(* pdf_upload_intake / handle_pdf_upload, for a readable PDF and a job id   *)
(* (the first 8 hex digits of a fresh uuid) that is not in use. Ids are     *)
(* interchangeable, so the first job is named "j1" and the second "j2".     *)
NextJobId == IF "j1" \notin DOMAIN jobs THEN "j1" ELSE "j2"

Intake(j, doc) ==
    /\ files' = WriteFile(files, Path(j, "original"), doc)
    /\ jobs' = save_job(j, [file_path |-> Path(j, "original"), page_count |-> Len(doc)])
    /\ result' = Response("upload", j, TRUE, "PDF intake successful")
    /\ stage' = [stage EXCEPT ![j] = "created"]
    /\ UNCHANGED <<impl, qc_summaries, threads, launched>>

Upload(j, doc) ==
    /\ ~HasJob(j)
    /\ j = NextJobId
    /\ StoredPages + Len(doc) <= MaxPages
    /\ Intake(j, doc)

(* detect_report_structure / handle_detect_structure *)

\* the front matter computed without the (0, 0) sentinel
front_matter_range_unguarded(e) == <<1, e - 1>>

\* a front matter that always holds the first page
front_matter_range_with_cover(e) == IF e > 1 THEN <<1, e - 1>> ELSE <<1, 1>>

front_matter_range(e) == IF e > 1 THEN <<1, e - 1>> ELSE <<0, 0>>

\* a written report that runs through the appendix start page
written_report_range_inclusive(e, a) == <<e, a>>

written_report_range(e, a) == <<e, a - 1>>

\* appendices that stop one page short of the end of the document
appendices_range_open(a, total_pages) == <<a, total_pages - 1>>

appendices_range(a, total_pages) == <<a, total_pages>>

\* the warnings list of the agent tool, in the order the checks append
Warnings(e, a, total_pages) ==
    (IF a - e < ShortWritten THEN <<"Written report section seems short">> ELSE << >>)
    \o (IF total_pages - a < ShortAppendices
        THEN <<"Appendices section seems short for a typical ESA">> ELSE << >>)

\* confidence in percent: 0.85, less 0.1 for each warning
Confidence(e, a, total_pages) ==
    BaseConfidence
    - (IF a - e < ShortWritten THEN Penalty ELSE 0)
    - (IF total_pages - a < ShortAppendices THEN Penalty ELSE 0)

Ranges(e, a, total_pages) ==
    [front_matter_range |-> front_matter_range(e),
     exec_summary_page |-> e,
     written_report_range |-> written_report_range(e, a),
     appendix_start_page |-> a,
     appendices_range |-> appendices_range(a, total_pages)]

\* StructureDetectionResult(...).model_dump() of the agent tool
ToolsStructure(j, e, a, total_pages) ==
    [job_id |-> j,
     confidence |-> Confidence(e, a, total_pages),
     warnings |-> Warnings(e, a, total_pages)] @@ Ranges(e, a, total_pages)

\* the structure dict of the server handler
ServerStructure(e, a, total_pages) == Ranges(e, a, total_pages)

\* `not all([job_id, exec_summary_page, appendix_start_page])`: 0 is falsy
MissingParams(e, a) == e = 0 \/ a = 0

\* validation without the appendix_start_page <= exec_summary_page check
ValidationErrorUnordered(e, a, total_pages) ==
    IF e < 1 THEN "exec_summary_page must be >= 1"
    ELSE IF a > total_pages THEN "appendix_start_page exceeds total pages"
    ELSE ""

\* the first failing validation, "" when the boundaries are accepted
ValidationError(e, a, total_pages) ==
    IF e < 1 THEN "exec_summary_page must be >= 1"
    ELSE IF a <= e THEN "appendix_start_page must be after exec_summary_page"
    ELSE IF a > total_pages THEN "appendix_start_page exceeds total pages"
    ELSE ""

Resolve(j, e, a) ==
    IF ImplOf(j) = "server" /\ MissingParams(e, a)
    THEN Fail("resolve", j, "job_id, exec_summary_page, and appendix_start_page are required")
    ELSE IF ~HasJob(j)
    THEN Fail("resolve", j, "Job not found")
    ELSE IF ValidationError(e, a, jobs[j].page_count) # ""
    THEN Fail("resolve", j, ValidationError(e, a, jobs[j].page_count))
    ELSE /\ jobs' = save_job(j, [structure |->
                        IF ImplOf(j) = "tools"
                        THEN ToolsStructure(j, e, a, jobs[j].page_count)
                        ELSE ServerStructure(e, a, jobs[j].page_count)])
         /\ result' = Response("resolve", j, TRUE, "Structure Detection Complete")
         /\ stage' = [stage EXCEPT ![j] = "resolved"]
         /\ UNCHANGED <<impl, files, qc_summaries, threads, launched>>

(* pdf_split / handle_pdf_split *)

\* a page count that forgets the range is inclusive
RangePagesExclusive(r) == r[2] - r[1]

\* written_range[1] - written_range[0] + 1
RangePages(r) == r[2] - r[1] + 1

\* SplitResult(...).model_dump() of the agent tool / the split dict of the server
SplitData(j, written_range, appendix_range) ==
    LET data == [written_report_path |-> Path(j, "written_report"),
                 written_report_pages |-> RangePages(written_range),
                 appendices_path |-> Path(j, "appendices"),
                 appendices_pages |-> RangePages(appendix_range)]
    IN  IF ImplOf(j) = "tools" THEN [job_id |-> j] @@ data ELSE data

Split(j) ==
    IF ~HasJob(j)
    THEN Fail("split", j, "Job not found")
    ELSE IF "structure" \notin DOMAIN jobs[j]
    THEN Fail("split", j, "Must run detect_report_structure first")
    ELSE
      LET reader == files[jobs[j].file_path]
          written_range == jobs[j].structure.written_report_range
          appendix_range == jobs[j].structure.appendices_range
          written_writer == CopyPages(reader, written_range[1] - 1, written_range[2])
          appendix_writer == CopyPages(reader, appendix_range[1] - 1, appendix_range[2])
          written_done == WriteFile(files, Path(j, "written_report"), written_writer)
      IN  IF ~InBounds(reader, written_range[1] - 1, written_range[2])
          THEN Fail("split", j, "IndexError")
          ELSE IF ~InBounds(reader, appendix_range[1] - 1, appendix_range[2])
          THEN \* written_report.pdf is already on disk when the second loop raises
               /\ files' = written_done
               /\ result' = Response("split", j, FALSE, "IndexError")
               /\ UNCHANGED <<impl, jobs, qc_summaries, stage, threads, launched>>
          ELSE /\ files' = WriteFile(written_done, Path(j, "appendices"), appendix_writer)
               /\ jobs' = save_job(j, [split |-> SplitData(j, written_range, appendix_range)])
               /\ result' = Response("split", j, TRUE, "PDF Split Complete")
               /\ stage' = [stage EXCEPT ![j] = AfterSplit(stage[j])]
               /\ UNCHANGED <<impl, qc_summaries, threads, launched>>

(* pdf_merge / handle_pdf_merge *)

\* job.get("structure", {}).get("front_matter_range", (0, 0))
FrontMatterOf(job) ==
    IF "structure" \in DOMAIN job THEN job.structure.front_matter_range ELSE <<0, 0>>

\* a merge of the two split artifacts alone
MergedPagesWithoutFront(front, original, written, appendices) == written \o appendices

\* the pages the merge appends to its writer, in order
MergedPages(front, original, written, appendices) ==
    (IF front[1] > 0 THEN CopyPages(original, front[1] - 1, front[2]) ELSE << >>)
    \o written \o appendices

\* a merge record that counts the pages of the two split artifacts only
MergeDataCountingArtifacts(j, total_pages) ==
    LET data == [recompiled_path |-> Path(j, "recompiled"),
                 recompiled_pages |-> jobs[j].split.written_report_pages
                                      + jobs[j].split.appendices_pages]
    IN  IF ImplOf(j) = "tools" THEN [job_id |-> j] @@ data ELSE data

\* a merge that writes its output where the job's original lies
recompiled_path_over_original(j) == jobs[j].file_path

\* a merge that writes its output where the written report lies
recompiled_path_over_written(j) == Path(j, "written_report")

\* job_output_dir / "recompiled.pdf"
recompiled_path(j) == Path(j, "recompiled")

MergeData(j, total_pages) ==
    LET data == [recompiled_path |-> recompiled_path(j),
                 recompiled_pages |-> total_pages]
    IN  IF ImplOf(j) = "tools" THEN [job_id |-> j] @@ data ELSE data

Merge(j) ==
    IF ~HasJob(j)
    THEN Fail("merge", j, "Job not found")
    ELSE IF "split" \notin DOMAIN jobs[j]
    THEN Fail("merge", j, "Must run pdf_split first")
    ELSE
      LET split_data == jobs[j].split
          front == FrontMatterOf(jobs[j])
          original_reader == files[jobs[j].file_path]
          writer == MergedPages(front, original_reader,
                                files[split_data.written_report_path],
                                files[split_data.appendices_path])
          \* one `total_pages += 1` for every add_page
          total_pages == Len(writer)
      IN  IF front[1] > 0 /\ ~InBounds(original_reader, front[1] - 1, front[2])
          THEN Fail("merge", j, "IndexError")
          ELSE /\ files' = WriteFile(files, recompiled_path(j), writer)
               /\ jobs' = save_job(j, [merge |-> MergeData(j, total_pages)])
               /\ result' = Response("merge", j, TRUE, "PDF Merge Complete")
               /\ stage' = [stage EXCEPT ![j] = AfterMerge(stage[j])]
               /\ UNCHANGED <<impl, qc_summaries, threads, launched>>

(* pdf_qc_analysis / handle_qc_analysis *)

\* a scan of every page of the document
BlankPagesUnbounded(recompiled) == BlankScan(recompiled, 1)

\* the blank pages among pdf.pages[:50], 1-indexed
BlankPages(recompiled) == BlankScan(Prefix(recompiled, ScanLimit), 1)

\* the issues list of the agent tool
Issues(page_count_match, blank_pages) ==
    (IF ~page_count_match THEN <<"Page count mismatch">> ELSE << >>)
    \o (IF blank_pages # << >> THEN <<"Potential blank pages detected">> ELSE << >>)

\* qc_passed of the agent tool
ToolsQCPassed(page_count_match, issues) == page_count_match /\ Len(issues) = 0

\* qc_passed of the server handler
ServerQCPassed(page_count_match) == page_count_match

ToolsQC(j, original_pages, recompiled) ==
    LET recompiled_pages == Len(recompiled)
        page_count_match == original_pages = recompiled_pages
        blank_pages == BlankPages(recompiled)
        issues == Issues(page_count_match, blank_pages)
    IN  [job_id |-> j,
         original_pages |-> original_pages,
         recompiled_pages |-> recompiled_pages,
         page_count_match |-> page_count_match,
         blank_pages_detected |-> Prefix(blank_pages, StoreLimit),
         potential_issues |-> issues,
         qc_passed |-> ToolsQCPassed(page_count_match, issues),
         qc_summary_path |-> Path(j, "qc_summary")]

ServerQC(j, original_pages, recompiled) ==
    LET recompiled_pages == Len(recompiled)
        page_count_match == original_pages = recompiled_pages
        blank_pages == BlankPages(recompiled)
    IN  [original_pages |-> original_pages,
         recompiled_pages |-> recompiled_pages,
         page_count_match |-> page_count_match,
         blank_pages |-> Prefix(blank_pages, StoreLimit),
         qc_passed |-> ServerQCPassed(page_count_match),
         qc_summary_path |-> Path(j, "qc_summary")]

\* what the canvas draws on qc_summary.pdf
Summary(qc) ==
    [status_text |-> IF qc.qc_passed THEN "QC PASSED" ELSE "QC FAILED",
     original_pages |-> qc.original_pages,
     recompiled_pages |-> qc.recompiled_pages,
     page_count_match |-> qc.page_count_match]

\* a refusal that also files a failed QC report for the job
QCWithoutMergeRecorded(j) ==
    /\ jobs' = save_job(j, [qc |-> [qc_passed |-> FALSE]])
    /\ result' = Response("qc", j, FALSE, "Must run pdf_merge first")
    /\ UNCHANGED <<impl, files, qc_summaries, stage, threads, launched>>

\* the `"merge" not in job` return
QCWithoutMerge(j) == Fail("qc", j, "Must run pdf_merge first")

QC(j) ==
    IF ~HasJob(j)
    THEN Fail("qc", j, "Job not found")
    ELSE IF "merge" \notin DOMAIN jobs[j]
    THEN QCWithoutMerge(j)
    ELSE
      LET recompiled == files[jobs[j].merge.recompiled_path]
          qc == IF ImplOf(j) = "tools"
                THEN ToolsQC(j, jobs[j].page_count, recompiled)
                ELSE ServerQC(j, jobs[j].page_count, recompiled)
      IN  /\ qc_summaries' = (Path(j, "qc_summary") :> Summary(qc)) @@ qc_summaries
          /\ jobs' = save_job(j, [qc |-> qc])
          /\ result' = Response("qc", j, TRUE, "QC Analysis Complete")
          /\ stage' = [stage EXCEPT ![j] = AfterQC(stage[j])]
          /\ UNCHANGED <<impl, files, threads, launched>>

(* get_download_links / handle_get_downloads *)

\* a files list that leaves the QC summary out
ListingOfDocuments(job) ==
    (IF "split" \in DOMAIN job
     THEN <<<<"Written Report", job.split.written_report_path, job.split.written_report_pages>>,
            <<"Appendices", job.split.appendices_path, job.split.appendices_pages>>>>
     ELSE << >>)
    \o (IF "merge" \in DOMAIN job
        THEN <<<<"Recompiled", job.merge.recompiled_path, job.merge.recompiled_pages>>>>
        ELSE << >>)

\* the files list: (name, path, pages) of every artifact the job records
Listing(job) ==
    (IF "split" \in DOMAIN job
     THEN <<<<"Written Report", job.split.written_report_path, job.split.written_report_pages>>,
            <<"Appendices", job.split.appendices_path, job.split.appendices_pages>>>>
     ELSE << >>)
    \o (IF "merge" \in DOMAIN job
        THEN <<<<"Recompiled", job.merge.recompiled_path, job.merge.recompiled_pages>>>>
        ELSE << >>)
    \o (IF "qc" \in DOMAIN job
        THEN <<<<"QC Summary", job.qc.qc_summary_path, 1>>>>
        ELSE << >>)

Downloads(j) ==
    IF ~HasJob(j)
    THEN Fail("downloads", j, "Job not found")
    ELSE /\ result' = [files |-> Listing(jobs[j])]
                        @@ Response("downloads", j, TRUE,
                                    IF Listing(jobs[j]) = << >>
                                    THEN "No output files generated yet"
                                    ELSE "Download Links")
         /\ UNCHANGED <<impl, jobs, files, qc_summaries, stage, threads, launched>>

----------------------------------------------------------------------------
Next ==
    \/ \E j \in JobIds, doc \in Docs : Upload(j, doc)
    \/ \E j \in JobIds, e \in PageInputs, a \in PageInputs : Resolve(j, e, a)
    \/ \E j \in JobIds : Split(j)
    \/ \E j \in JobIds : Merge(j)
    \/ \E j \in JobIds : QC(j)

Spec == Init /\ [][Next]_vars

----------------------------------------------------------------------------
(* One job taken through any sequence of calls, the listing included: on   *)
(* the small documents with every pair of boundaries, and on the reports.   *)

UploadFirst(doc) == ~HasJob("j1") /\ Intake("j1", doc)

NextJob ==
    \/ \E doc \in Docs : UploadFirst(doc)
    \/ \E e \in PageInputs, a \in PageInputs : Resolve("j1", e, a)
    \/ Split("j1")
    \/ Merge("j1")
    \/ QC("j1")
    \/ Downloads("j1")

SpecJob == Init /\ [][NextJob]_vars

NextReport ==
    \/ \E doc \in Reports : UploadFirst(doc)
    \/ \E e \in ExecSummaryInputs, a \in AppendixStartInputs : Resolve("j1", e, a)
    \/ Split("j1")
    \/ Merge("j1")
    \/ QC("j1")
    \/ Downloads("j1")

SpecReport == Init /\ [][NextReport]_vars

----------------------------------------------------------------------------
(* Intake that fails: before a job exists and at any point of its life.     *)

\* what the bytes of a file that is not a PDF hold
NotAPdf == "not a PDF"

Causes == {"missing", "unreadable"}

\* a failing intake that registers an empty job all the same
IntakeFailsRegistering(j, cause) ==
    /\ result' = Response("upload", j, FALSE, "Error processing PDF")
    /\ jobs' = save_job(j, [page_count |-> 0])
    /\ UNCHANGED <<impl, files, qc_summaries, stage, threads, launched>>

(* No file at the path (tools) or no file_base64 (server): the early       *)
(* return. A file PdfReader cannot read: the exception is caught after the  *)
(* id was drawn, and on the server after the bytes were written under       *)
(* UPLOAD_DIR/{job_id}_{filename}, here a file name no job's original has.  *)
IntakeFails(j, cause) ==
    IF cause = "missing"
    THEN Fail("upload", j, IF ImplOf(j) = "tools" THEN "File not found" ELSE "file_base64 is required")
    ELSE /\ result' = Response("upload", j, FALSE, "Error processing PDF")
         /\ files' = IF ImplOf(j) = "server"
                     THEN WriteFile(files, Path(j, "rejected"), NotAPdf)
                     ELSE files
         /\ UNCHANGED <<impl, jobs, qc_summaries, stage, threads, launched>>

NextIntake ==
    \/ \E doc \in Docs : UploadFirst(doc)
    \/ \E cause \in Causes : IntakeFails("j1", cause)
    \/ \E e \in PageInputs, a \in PageInputs : Resolve("j1", e, a)
    \/ Split("j1")
    \/ Merge("j1")
    \/ QC("j1")

SpecIntake == Init /\ [][NextIntake]_vars

----------------------------------------------------------------------------
(* A second job whose document is a file the first job produced or holds.   *)
(* pdf_upload_intake(file_path) registers the caller's path itself, without *)
(* copying the file, so the new job's original is the very file the other   *)
(* job's split or merge writes. The server receives the bytes and stores    *)
(* its own copy under UPLOAD_DIR/{job_id}_{filename}.                       *)
UploadFile(j, path) ==
    /\ ~HasJob(j)
    /\ path \in DOMAIN files
    /\ IF ImplOf(j) = "tools"
       THEN /\ jobs' = save_job(j, [file_path |-> path, page_count |-> Len(files[path])])
            /\ result' = Response("upload", j, TRUE, "PDF intake successful")
            /\ stage' = [stage EXCEPT ![j] = "created"]
            /\ UNCHANGED <<impl, files, qc_summaries, threads, launched>>
       ELSE Intake(j, files[path])

NextShared ==
    \/ \E doc \in Docs : UploadFirst(doc)
    \/ \E path \in {Path("j1", "written_report"), Path("j1", "appendices")} : UploadFile("j2", path)
    \/ \E j \in JobIds, e \in PageInputs, a \in PageInputs : Resolve(j, e, a)
    \/ \E j \in JobIds : Split(j)
    \/ \E j \in JobIds : Merge(j)

SpecShared == Init /\ [][NextShared]_vars

----------------------------------------------------------------------------
(* The two implementations side by side: every call is made on the agent    *)
(* tools (job "j1") and then, with the same inputs, on the server (job      *)
(* "j2"), which received the same document.                                 *)

InitBoth ==
    /\ impl = "both"
    /\ jobs = << >>
    /\ files = << >>
    /\ qc_summaries = << >>
    /\ result = Response("none", "none", TRUE, "")
    /\ stage = [j \in JobIds |-> "none"]
    /\ threads = [t \in Callers |-> Idle]
    /\ launched = << >>

\* the last call was answered by both
TurnTools == result.job \in {"none", "j2"}

\* the tools have answered the call op, the server has not yet
TurnServer(op) == result.job = "j1" /\ result.op = op

ToolsCall ==
    /\ TurnTools
    /\ \/ \E doc \in Docs : UploadFirst(doc)
       \/ \E e \in PageInputs, a \in PageInputs : Resolve("j1", e, a)
       \/ Split("j1")
       \/ Merge("j1")
       \/ QC("j1")

\* the boundaries (e, a) are those of the resolve the tools just answered:
\* the ones stored on success, the ones that draw the same refusal otherwise
SameBoundaries(e, a) ==
    IF result.ok
    THEN e = jobs["j1"].structure.exec_summary_page
         /\ a = jobs["j1"].structure.appendix_start_page
    ELSE HasJob("j1") => ValidationError(e, a, jobs["j1"].page_count) = result.msg

ServerAnswersUpload == TurnServer("upload") /\ Intake("j2", files[jobs["j1"].file_path])

ServerAnswersResolve ==
    /\ TurnServer("resolve")
    /\ \E e \in PageInputs, a \in PageInputs : SameBoundaries(e, a) /\ Resolve("j2", e, a)

ServerAnswersSplit == TurnServer("split") /\ Split("j2")

ServerAnswersMerge == TurnServer("merge") /\ Merge("j2")

ServerAnswersQC == TurnServer("qc") /\ QC("j2")

NextBoth ==
    \/ ToolsCall
    \/ ServerAnswersUpload
    \/ ServerAnswersResolve
    \/ ServerAnswersSplit
    \/ ServerAnswersMerge
    \/ ServerAnswersQC

SpecBoth == InitBoth /\ [][NextBoth]_vars

----------------------------------------------------------------------------
(* Intake under any job id. The id is str(uuid.uuid4())[:8], 32 random bits *)
(* that neither intake compares with the keys of the job store, so the id   *)
(* drawn may be one the store already holds; save_job then updates the job  *)
(* stored under it.                                                          *)
UploadAny(j, doc) == Intake(j, doc)

NextCollide ==
    \/ \E doc \in Docs : UploadAny("j1", doc)
    \/ \E e \in PageInputs, a \in PageInputs : Resolve("j1", e, a)
    \/ Split("j1")

SpecCollide == Init /\ [][NextCollide]_vars

----------------------------------------------------------------------------
(* A split whose file output fails. open(path, "wb") raises OSError either  *)
(* for written_report.pdf, when nothing has been written yet, or for        *)
(* appendices.pdf, when written_report.pdf already holds the pages of the   *)
(* current Structure. The tools catch the exception and return an error     *)
(* string, the server's call_tool turns it into an error response; neither  *)
(* reaches save_job.                                                        *)
FailurePoints == {"written_report", "appendices"}

SplitFails(j, point) ==
    /\ Has(j, "structure")
    /\ LET reader == files[jobs[j].file_path]
           written_range == jobs[j].structure.written_report_range
           written_writer == CopyPages(reader, written_range[1] - 1, written_range[2])
       IN  /\ files' = IF point = "appendices"
                       THEN WriteFile(files, Path(j, "written_report"), written_writer)
                       ELSE files
           /\ result' = Response("split", j, FALSE, "OSError")
           /\ UNCHANGED <<impl, jobs, qc_summaries, stage, threads, launched>>

NextSplitIO ==
    \/ \E doc \in Docs : UploadFirst(doc)
    \/ \E e \in PageInputs, a \in PageInputs : Resolve("j1", e, a)
    \/ Split("j1")
    \/ \E point \in FailurePoints : SplitFails("j1", point)
    \/ Merge("j1")
    \/ QC("j1")

SpecSplitIO == Init /\ [][NextSplitIO]_vars

----------------------------------------------------------------------------
(* Concurrent callers. The agent's tool node runs the tool calls of one     *)
(* model turn on a thread pool, and neither job store takes a lock, so a    *)
(* pdf_split and a pdf_merge of the same job interleave at their file and   *)
(* dictionary accesses. The server's handlers are coroutines without an     *)
(* await, so the event loop runs each of them to its end.                   *)

InFlight(t) == threads[t].pc \notin {"idle", "start", "done"}

\* the event loop of the server never switches inside a handler
MayRun(t) == impl = "server" => \A u \in Callers \ {t} : ~InFlight(u)

Goto(t, locals) == threads' = [threads EXCEPT ![t] = locals]

\* both calls are issued for a job on which each would succeed alone
Launch(j) ==
    /\ launched = << >>
    /\ Has(j, "split")
    /\ launched' = <<[job |-> j, jobs |-> jobs, files |-> files]>>
    /\ threads' = [t \in Callers |-> [pc |-> "start", job |-> j]]
    /\ UNCHANGED <<impl, jobs, files, qc_summaries, result, stage>>

\* pdf_split up to the first write: job, structure and reader are read
SplitBegin ==
    LET t == "splitter"
        j == threads[t].job
    IN  /\ threads[t].pc = "start"
        /\ MayRun(t)
        /\ Goto(t, [pc |-> "write_written", job |-> j,
                    reader |-> files[jobs[j].file_path],
                    written_range |-> jobs[j].structure.written_report_range,
                    appendix_range |-> jobs[j].structure.appendices_range])
        /\ UNCHANGED <<impl, jobs, files, qc_summaries, result, stage, launched>>

\* written_writer.write(f)
SplitWriteWritten ==
    LET t == "splitter"
        l == threads[t]
    IN  /\ l.pc = "write_written"
        /\ MayRun(t)
        /\ files' = WriteFile(files, Path(l.job, "written_report"),
                        CopyPages(l.reader, l.written_range[1] - 1, l.written_range[2]))
        /\ Goto(t, [l EXCEPT !.pc = "write_appendices"])
        /\ UNCHANGED <<impl, jobs, qc_summaries, result, stage, launched>>

\* appendix_writer.write(f)
SplitWriteAppendices ==
    LET t == "splitter"
        l == threads[t]
    IN  /\ l.pc = "write_appendices"
        /\ MayRun(t)
        /\ files' = WriteFile(files, Path(l.job, "appendices"),
                        CopyPages(l.reader, l.appendix_range[1] - 1, l.appendix_range[2]))
        /\ Goto(t, [l EXCEPT !.pc = "save"])
        /\ UNCHANGED <<impl, jobs, qc_summaries, result, stage, launched>>

\* _save_job(job_id, {"split": ...}) and the return
SplitSave ==
    LET t == "splitter"
        l == threads[t]
    IN  /\ l.pc = "save"
        /\ MayRun(t)
        /\ jobs' = save_job(l.job, [split |-> SplitData(l.job, l.written_range, l.appendix_range)])
        /\ result' = Response("split", l.job, TRUE, "PDF Split Complete")
        /\ Goto(t, [pc |-> "done", job |-> l.job])
        /\ UNCHANGED <<impl, files, qc_summaries, stage, launched>>

\* pdf_merge up to the first artifact read: job, split data, front matter
MergeBegin ==
    LET t == "merger"
        j == threads[t].job
    IN  /\ threads[t].pc = "start"
        /\ MayRun(t)
        /\ Goto(t, [pc |-> "read_written", job |-> j,
                    split_data |-> jobs[j].split,
                    front |-> FrontMatterOf(jobs[j]),
                    original |-> files[jobs[j].file_path]])
        /\ UNCHANGED <<impl, jobs, files, qc_summaries, result, stage, launched>>

\* written_reader = PdfReader(written_path)
MergeReadWritten ==
    LET t == "merger"
        l == threads[t]
    IN  /\ l.pc = "read_written"
        /\ MayRun(t)
        /\ Goto(t, [written |-> files[l.split_data.written_report_path]]
                   @@ [l EXCEPT !.pc = "read_appendices"])
        /\ UNCHANGED <<impl, jobs, files, qc_summaries, result, stage, launched>>

\* appendix_reader = PdfReader(appendix_path)
MergeReadAppendices ==
    LET t == "merger"
        l == threads[t]
    IN  /\ l.pc = "read_appendices"
        /\ MayRun(t)
        /\ Goto(t, [appendices |-> files[l.split_data.appendices_path]]
                   @@ [l EXCEPT !.pc = "write"])
        /\ UNCHANGED <<impl, jobs, files, qc_summaries, result, stage, launched>>

\* writer.write(f) on recompiled.pdf
MergeWrite ==
    LET t == "merger"
        l == threads[t]
    IN  /\ l.pc = "write"
        /\ MayRun(t)
        /\ files' = WriteFile(files, recompiled_path(l.job),
                        MergedPages(l.front, l.original, l.written, l.appendices))
        /\ Goto(t, [l EXCEPT !.pc = "save"])
        /\ UNCHANGED <<impl, jobs, qc_summaries, result, stage, launched>>

\* _save_job(job_id, {"merge": ...}) and the return
MergeSave ==
    LET t == "merger"
        l == threads[t]
    IN  /\ l.pc = "save"
        /\ MayRun(t)
        /\ jobs' = save_job(l.job, [merge |->
                        MergeData(l.job, Len(MergedPages(l.front, l.original,
                                                         l.written, l.appendices)))])
        /\ result' = Response("merge", l.job, TRUE, "PDF Merge Complete")
        /\ Goto(t, [pc |-> "done", job |-> l.job])
        /\ UNCHANGED <<impl, files, qc_summaries, stage, launched>>

NextConc ==
    \/ launched = << >> /\ Next
    \/ \E j \in JobIds : Launch(j)
    \/ SplitBegin
    \/ SplitWriteWritten
    \/ SplitWriteAppendices
    \/ SplitSave
    \/ MergeBegin
    \/ MergeReadWritten
    \/ MergeReadAppendices
    \/ MergeWrite
    \/ MergeSave

SpecConc == Init /\ [][NextConc]_vars

----------------------------------------------------------------------------
(* Vocabulary of the properties *)

Original(j) == files[jobs[j].file_path]
WrittenReport(j) == files[jobs[j].split.written_report_path]
Appendices(j) == files[jobs[j].split.appendices_path]
Recompiled(j) == files[jobs[j].merge.recompiled_path]

\* the pages an inclusive 1-indexed range covers, (0, 0) covering none
RangeSet(r) == IF r = <<0, 0>> THEN {} ELSE r[1] .. r[2]

\* the boundaries resolve_structure is specified to accept
Accepted(e, a, total_pages) == 1 <= e /\ e < a /\ a <= total_pages

Succeeded(op) == result.op = op /\ result.ok

----------------------------------------------------------------------------
(* C1 - Lossless round trip: a job taken through resolve_structure, split   *)
(* and merge in that order has a recompiled document equal to its original  *)
(* document: same length, same page at every position.                      *)
C1_RoundTrip ==
    \A j \in DOMAIN jobs :
        stage[j] \in {"merged", "qc"} =>
            /\ Len(Recompiled(j)) = Len(Original(j))
            /\ \A k \in 1 .. Len(Original(j)) : Recompiled(j)[k] = Original(j)[k]

\* a merge has just rebuilt a document that has front matter
C1_Witness ==
    /\ Succeeded("merge")
    /\ stage[result.job] = "merged"
    /\ jobs[result.job].structure.front_matter_range[1] > 0
    /\ Len(Original(result.job)) >= 3

(* C2 - Partition: the front-matter, written-report and appendices ranges   *)
(* of a resolved Structure are pairwise disjoint and together cover exactly *)
(* pages 1..total_pages, (0,0) being the empty range.                       *)
C2_Partition ==
    \A j \in DOMAIN jobs :
        Has(j, "structure") =>
            LET st == jobs[j].structure
                F == RangeSet(st.front_matter_range)
                W == RangeSet(st.written_report_range)
                A == RangeSet(st.appendices_range)
            IN  /\ F \cap W = {}
                /\ F \cap A = {}
                /\ W \cap A = {}
                /\ F \cup W \cup A = 1 .. jobs[j].page_count

\* a resolve has just stored a Structure with all three ranges non-empty
C2_Witness ==
    /\ Succeeded("resolve")
    /\ RangeSet(jobs[result.job].structure.front_matter_range) # {}
    /\ RangeSet(jobs[result.job].structure.written_report_range) # {}
    /\ RangeSet(jobs[result.job].structure.appendices_range) # {}

(* C3 - QC correctness: after a successful run_qc, qc_passed is true        *)
(* exactly when the original page count equals the recompiled page count;   *)
(* blank pages found by the scan do not make it false.                      *)
QCReportOf(j) == jobs[j].qc

C3_QCCorrectness ==
    Succeeded("qc") =>
        LET j == result.job
        IN  /\ QCReportOf(j).page_count_match = (jobs[j].page_count = Len(Recompiled(j)))
            /\ QCReportOf(j).qc_passed = (jobs[j].page_count = Len(Recompiled(j)))

(* C4 - Stage ordering: a job has a QCReport only if it has a MergeArtifact,*)
(* a MergeArtifact only if it has SplitArtifacts, and SplitArtifacts only   *)
(* if it has a Structure.                                                   *)
C4_StageOrdering ==
    \A j \in DOMAIN jobs :
        /\ Has(j, "qc") => Has(j, "merge")
        /\ Has(j, "merge") => Has(j, "split")
        /\ Has(j, "split") => Has(j, "structure")

\* a job that went all the way to a QCReport
C4_Witness == Succeeded("qc") /\ Has(result.job, "qc")

(* C5 - Precondition failures: split on a job without a Structure, merge   *)
(* on a job without SplitArtifacts and run_qc on a job without a            *)
(* MergeArtifact each return their precondition error, produce no artifact  *)
(* and leave the job store and the files as they were.                      *)
Untouched == UNCHANGED <<jobs, files, qc_summaries>>

Refused(msg) == ~result'.ok /\ result'.msg = msg /\ Untouched

C5_PreconditionFailures ==
    [][LET j == result'.job
       IN  /\ (result'.op = "split" /\ Split(j) /\ HasJob(j) /\ ~Has(j, "structure"))
                  => Refused("Must run detect_report_structure first")
           /\ (result'.op = "merge" /\ Merge(j) /\ HasJob(j) /\ ~Has(j, "split"))
                  => Refused("Must run pdf_split first")
           /\ (result'.op = "qc" /\ QC(j) /\ HasJob(j) /\ ~Has(j, "merge"))
                  => Refused("Must run pdf_merge first")]_vars

\* run_qc has just been refused on a job that was split but not merged
C5_Witness ==
    /\ result.op = "qc" /\ ~result.ok
    /\ result.msg = "Must run pdf_merge first"
    /\ Has(result.job, "split")
    /\ ~Has(result.job, "merge")

(* C6 - Boundary validation: resolve_structure on an existing job succeeds  *)
(* exactly when 1 <= exec_summary_page < appendix_start_page <= total_pages;*)
(* otherwise it fails with the error of the first failing check, in the     *)
(* order exec_summary_page < 1, appendix_start_page <= exec_summary_page,   *)
(* appendix_start_page > total_pages.                                       *)
C6_BoundaryValidation ==
    [][\A j \in JobIds, e \in PageInputs, a \in PageInputs :
        (Resolve(j, e, a) /\ HasJob(j)) =>
            LET total_pages == jobs[j].page_count
            IN  /\ result'.ok <=> Accepted(e, a, total_pages)
                /\ e < 1 => result'.msg = "exec_summary_page must be >= 1"
                /\ (e >= 1 /\ a <= e) =>
                       result'.msg = "appendix_start_page must be after exec_summary_page"
                /\ (e >= 1 /\ a > e /\ a > total_pages) =>
                       result'.msg = "appendix_start_page exceeds total pages"]_vars

(* C7 - Rejection without mutation: a resolve_structure that fails leaves   *)
(* the job's Structure and everything else of the job as it was, and only   *)
(* accepted boundaries succeed (appendix_start_page <= exec_summary_page is *)
(* always among the failures).                                              *)
C7_RejectionWithoutMutation ==
    [][result'.op = "resolve" =>
        /\ ~result'.ok => Untouched
        /\ result'.ok =>
               \A e \in PageInputs, a \in PageInputs :
                   (/\ jobs'[result'.job].structure.exec_summary_page = e
                    /\ jobs'[result'.job].structure.appendix_start_page = a
                    /\ Resolve(result'.job, e, a)) =>
                       Accepted(e, a, jobs[result'.job].page_count)]_vars

\* a resolve was rejected for appendix_start_page <= exec_summary_page on a
\* job that already holds a Structure and artifacts
C7_Witness ==
    /\ result.op = "resolve" /\ ~result.ok
    /\ result.msg = "appendix_start_page must be after exec_summary_page"
    /\ Has(result.job, "structure")
    /\ Has(result.job, "split")

(* C8 - Per-job serialization: when a split and a merge of the same job    *)
(* run at the same time, the job and its artifacts end as after the two     *)
(* calls run one after the other in some order: the artifacts are those of  *)
(* the split, and the recompiled document is the merge of the artifacts as  *)
(* they were either before the split or after it.                           *)
BothDone == \A t \in Callers : threads[t].pc = "done"

C8_Serialized ==
    BothDone =>
        LET j == launched[1].job
            before == launched[1].files
            job == launched[1].jobs[j]
            original == before[job.file_path]
            wr == job.structure.written_report_range
            ar == job.structure.appendices_range
            new_written == CopyPages(original, wr[1] - 1, wr[2])
            new_appendices == CopyPages(original, ar[1] - 1, ar[2])
            merge_first == MergedPages(FrontMatterOf(job), original,
                                       before[job.split.written_report_path],
                                       before[job.split.appendices_path])
            split_first == MergedPages(FrontMatterOf(job), original,
                                       new_written, new_appendices)
        IN  /\ WrittenReport(j) = new_written
            /\ Appendices(j) = new_appendices
            /\ jobs[j].split = SplitData(j, wr, ar)
            /\ Recompiled(j) \in {merge_first, split_first}
            /\ jobs[j].merge = MergeData(j, Len(Recompiled(j)))

(* C9 - Range computation: a successful resolve_structure(e, a) stores      *)
(* front_matter_range (1, e-1) if e > 1 and (0,0) otherwise,                *)
(* written_report_range (e, a-1) and appendices_range (a, total_pages),     *)
(* total_pages being the page count recorded for the job at intake.         *)
C9_RangeComputation ==
    [][(result'.op = "resolve" /\ result'.ok) =>
        \A e \in PageInputs, a \in PageInputs :
            Resolve(result'.job, e, a) =>
                LET j == result'.job
                    st == jobs'[j].structure
                IN  /\ st.front_matter_range = IF e > 1 THEN <<1, e - 1>> ELSE <<0, 0>>
                    /\ st.written_report_range = <<e, a - 1>>
                    /\ st.appendices_range = <<a, jobs[j].page_count>>
                    /\ st.exec_summary_page = e
                    /\ st.appendix_start_page = a
                    /\ jobs[j].page_count = Len(Original(j))]_vars

\* a resolve with exec_summary_page = 1 has just stored its Structure
C9_Witness ==
    /\ Succeeded("resolve")
    /\ jobs[result.job].structure.exec_summary_page = 1
    /\ jobs[result.job].structure.front_matter_range = <<0, 0>>
    /\ jobs[result.job].structure.written_report_range[2] > 1

(* C10 - Split result: after a successful split the written-report         *)
(* artifact is the original pages written_report_range.start..end in order, *)
(* the appendices artifact is the original pages appendices_range.start..end*)
(* in order, and the recorded page counts (end - start + 1) are the numbers *)
(* of pages in the two artifacts.                                           *)
C10_SplitResult ==
    Succeeded("split") =>
        LET j == result.job
            wr == jobs[j].structure.written_report_range
            ar == jobs[j].structure.appendices_range
        IN  /\ WrittenReport(j) = SubSeq(Original(j), wr[1], wr[2])
            /\ Appendices(j) = SubSeq(Original(j), ar[1], ar[2])
            /\ jobs[j].split.written_report_pages = wr[2] - wr[1] + 1
            /\ jobs[j].split.appendices_pages = ar[2] - ar[1] + 1
            /\ jobs[j].split.written_report_pages = Len(WrittenReport(j))
            /\ jobs[j].split.appendices_pages = Len(Appendices(j))

\* a split has just produced a two-page written report
C10_Witness ==
    /\ Succeeded("split")
    /\ Len(WrittenReport(result.job)) = 2
    /\ Len(Appendices(result.job)) >= 1

(* C11 - Merge result: after a successful merge the recompiled document is  *)
(* the front-matter pages of the original (none for (0,0)), then the pages   *)
(* of the written-report artifact, then the pages of the appendices          *)
(* artifact, each in order; the recorded recompiled page count is the sum of *)
(* the three lengths and the length of the recompiled document.              *)
FrontMatterPages(j) ==
    LET fm == jobs[j].structure.front_matter_range
    IN  IF fm = <<0, 0>> THEN << >> ELSE SubSeq(Original(j), fm[1], fm[2])

C11_MergeResult ==
    Succeeded("merge") =>
        LET j == result.job
        IN  /\ Recompiled(j) = FrontMatterPages(j) \o WrittenReport(j) \o Appendices(j)
            /\ jobs[j].merge.recompiled_pages =
                   Len(FrontMatterPages(j)) + Len(WrittenReport(j)) + Len(Appendices(j))
            /\ jobs[j].merge.recompiled_pages = Len(Recompiled(j))

\* a merge has just assembled one page of each of the three segments
C11_Witness ==
    /\ Succeeded("merge")
    /\ Len(FrontMatterPages(result.job)) = 1
    /\ Len(WrittenReport(result.job)) = 1
    /\ Len(Appendices(result.job)) = 1
    /\ jobs[result.job].merge.recompiled_pages = 3

(* C12 - No front matter: a Structure resolved with exec_summary_page = 1   *)
(* has front_matter_range (0,0), and a merge under it copies no page of the  *)
(* original: the recompiled document is the written-report artifact          *)
(* followed by the appendices artifact.                                      *)
C12_NoFrontMatter ==
    \A j \in DOMAIN jobs :
        (Has(j, "structure") /\ jobs[j].structure.exec_summary_page = 1) =>
            /\ jobs[j].structure.front_matter_range = <<0, 0>>
            /\ (Succeeded("merge") /\ result.job = j) =>
                   /\ Recompiled(j) = WrittenReport(j) \o Appendices(j)
                   /\ jobs[j].merge.recompiled_pages
                          = Len(WrittenReport(j)) + Len(Appendices(j))

\* a merge has just run under a Structure with exec_summary_page = 1
C12_Witness ==
    /\ Succeeded("merge")
    /\ jobs[result.job].structure.exec_summary_page = 1
    /\ Len(Recompiled(result.job)) >= 2

(* C13 - Single-page appendix: a Structure resolved with                    *)
(* appendix_start_page = total_pages has appendices_range                    *)
(* (total_pages, total_pages), and a split under it produces an appendices   *)
(* artifact of exactly one page, the last page of the original.              *)
C13_SinglePageAppendix ==
    \A j \in DOMAIN jobs :
        LET n == jobs[j].page_count
        IN  (Has(j, "structure") /\ jobs[j].structure.appendix_start_page = n) =>
                /\ jobs[j].structure.appendices_range = <<n, n>>
                /\ (Succeeded("split") /\ result.job = j) =>
                       /\ Appendices(j) = <<Original(j)[n]>>
                       /\ Original(j)[n].id = n
                       /\ jobs[j].split.appendices_pages = 1

\* a split has just run under appendix_start_page = total_pages = 3
C13_Witness ==
    /\ Succeeded("split")
    /\ jobs[result.job].page_count = 3
    /\ jobs[result.job].structure.appendix_start_page = 3
    /\ Len(Appendices(result.job)) = 1

(* C14 - Concrete scenario: on a 75-page job, resolve_structure(4, 38)      *)
(* stores front matter (1,3), written report (4,37) and appendices (38,75); *)
(* the split after it records 34 and 38 pages; the merge after that records *)
(* 75 pages; run_qc after that reports page_count_match and qc_passed true. *)
C14_Scenario ==
    \A j \in DOMAIN jobs :
        (/\ jobs[j].page_count = 75
         /\ Has(j, "structure")
         /\ jobs[j].structure.exec_summary_page = 4
         /\ jobs[j].structure.appendix_start_page = 38) =>
            /\ jobs[j].structure.front_matter_range = <<1, 3>>
            /\ jobs[j].structure.written_report_range = <<4, 37>>
            /\ jobs[j].structure.appendices_range = <<38, 75>>
            /\ stage[j] \in {"split", "merged", "qc"} =>
                   /\ jobs[j].split.written_report_pages = 34
                   /\ jobs[j].split.appendices_pages = 38
            /\ stage[j] \in {"merged", "qc"} => jobs[j].merge.recompiled_pages = 75
            /\ stage[j] = "qc" =>
                   /\ QCReportOf(j).page_count_match
                   /\ QCReportOf(j).qc_passed

(* C15 - Confidence heuristic: every Structure a resolve_structure stores   *)
(* carries a confidence of 0.85, less 0.10 with the warning "written report *)
(* section seems short" exactly when the written-report range has fewer     *)
(* than 10 pages, less 0.10 with the warning "appendices section seems      *)
(* short for a typical ESA" exactly when the appendices range has fewer     *)
(* than 20 pages (a range has end - start + 1 pages; confidence in percent).*)
SpanPages(r) == r[2] - r[1] + 1

Warned(st, text) == \E k \in 1 .. Len(st.warnings) : st.warnings[k] = text

C15_ConfidenceHeuristic ==
    \A j \in DOMAIN jobs :
        Has(j, "structure") =>
            LET st == jobs[j].structure
                short_written == SpanPages(st.written_report_range) < 10
                short_appendices == SpanPages(st.appendices_range) < 20
            IN  /\ {"confidence", "warnings"} \subseteq DOMAIN st
                /\ st.confidence = 85 - (IF short_written THEN 10 ELSE 0)
                                      - (IF short_appendices THEN 10 ELSE 0)
                /\ Warned(st, "Written report section seems short") <=> short_written
                /\ Warned(st, "Appendices section seems short for a typical ESA")
                       <=> short_appendices
                /\ Len(st.warnings) = (IF short_written THEN 1 ELSE 0)
                                       + (IF short_appendices THEN 1 ELSE 0)

(* C16 - Blank-page definition, as claimed: within the scan bounds (the     *)
(* first 50 pages, up to the 20th blank one) run_qc reports a page as blank *)
(* exactly when its extracted text is empty or has fewer than 10            *)
(* non-whitespace characters.                                               *)
NonSpace(t) == {i \in 1 .. Len(t) : ~IsSpace(t[i])}

NonWhitespaceCount(t) == Cardinality(NonSpace(t))

\* the length of t from its first to its last non-whitespace character
TrimmedLength(t) ==
    IF NonSpace(t) = {} THEN 0
    ELSE (CHOOSE i \in NonSpace(t) : \A k \in NonSpace(t) : k <= i)
         - (CHOOSE i \in NonSpace(t) : \A k \in NonSpace(t) : i <= k) + 1

\* the blank-page list of the stored QC report
BlankList(j) ==
    IF "blank_pages_detected" \in DOMAIN jobs[j].qc
    THEN jobs[j].qc.blank_pages_detected
    ELSE jobs[j].qc.blank_pages

Reported(j) == {BlankList(j)[k] : k \in 1 .. Len(BlankList(j))}

Scanned(j) == 1 .. (IF Len(Recompiled(j)) < 50 THEN Len(Recompiled(j)) ELSE 50)

\* the scanned pages up to where the list stops at its 20th entry
WithinReport(j) ==
    {p \in Scanned(j) : Len(BlankList(j)) < 20 \/ p <= BlankList(j)[Len(BlankList(j))]}

C16_BlankDefinition ==
    Succeeded("qc") =>
        \A p \in WithinReport(result.job) :
            p \in Reported(result.job) <=>
                \/ Recompiled(result.job)[p].text = << >>
                \/ NonWhitespaceCount(Recompiled(result.job)[p].text) < 10

(* C16 as amended: within the scan bounds run_qc reports a page as blank    *)
(* exactly when its extracted text is empty or, trimmed of leading and       *)
(* trailing whitespace, is shorter than 10 characters, whitespace inside the *)
(* trimmed text counted.                                                     *)
C16_BlankByTrimmedLength ==
    Succeeded("qc") =>
        \A p \in WithinReport(result.job) :
            p \in Reported(result.job) <=>
                \/ Recompiled(result.job)[p].text = << >>
                \/ TrimmedLength(Recompiled(result.job)[p].text) < 10

\* a QC has just reported a page of nine characters inside whitespace and
\* passed over a page of eight characters around two spaces
C16_Witness ==
    /\ Succeeded("qc")
    /\ \E p \in WithinReport(result.job), q \in WithinReport(result.job) :
           /\ Recompiled(result.job)[p].text = PaddedNine
           /\ p \in Reported(result.job)
           /\ Recompiled(result.job)[q].text = Spaced
           /\ q \notin Reported(result.job)

(* C17 - Bounded blank-page report: the stored blank-page list has at most  *)
(* 20 entries, each the 1-indexed number of a blank page among the first 50  *)
(* pages of the recompiled document, in strictly ascending order; it is the  *)
(* first 20 (or all, if fewer) of those pages, and no page after the 50th is *)
(* in it.                                                                    *)
BlankAmongScanned(j) ==
    {p \in Scanned(j) : TrimmedLength(Recompiled(j)[p].text) < 10}

C17_BoundedBlankReport ==
    Succeeded("qc") =>
        LET j == result.job
            L == BlankList(j)
            B == BlankAmongScanned(j)
        IN  /\ Len(L) <= 20
            /\ \A k \in 1 .. Len(L) :
                   /\ 1 <= L[k] /\ L[k] <= 50 /\ L[k] <= Len(Recompiled(j))
                   /\ L[k] \in B
            /\ \A k \in 1 .. (Len(L) - 1) : L[k] < L[k + 1]
            /\ Len(L) = (IF Cardinality(B) < 20 THEN Cardinality(B) ELSE 20)
            /\ \A p \in B \ Reported(j) : \A k \in 1 .. Len(L) : L[k] < p

\* a QC has just cut its list at 20 of the more than 20 blank pages it found
C17_Witness ==
    /\ Succeeded("qc")
    /\ Len(BlankList(result.job)) = 20
    /\ Cardinality(BlankAmongScanned(result.job)) > 20
    /\ Len(Recompiled(result.job)) > 50

(* C18 - Original document is read-only: no call on a job changes the path  *)
(* of its original document, the pages of that document or the page count   *)
(* recorded at intake, which is the number of pages of the document.         *)
C18_OriginalReadOnly ==
    [][\A j \in DOMAIN jobs :
        /\ j \in DOMAIN jobs'
        /\ {"file_path", "page_count"} \subseteq DOMAIN jobs'[j]
        /\ jobs'[j].file_path = jobs[j].file_path
        /\ jobs'[j].page_count = jobs[j].page_count
        /\ files'[jobs[j].file_path] = files[jobs[j].file_path]
        /\ jobs[j].page_count = Len(Original(j))]_vars

\* the artifacts of a three-page job that went through QC have just been
\* listed, and its original is still one of the documents offered for upload
C18_Witness ==
    /\ Succeeded("downloads")
    /\ Has(result.job, "qc")
    /\ Original(result.job) \in Docs
    /\ jobs[result.job].page_count = 3

(* C19 - Artifact immutability: once a job has a written-report, an         *)
(* appendices, a recompiled or a QC artifact, no later call changes the      *)
(* artifact's pages or its recorded page count.                              *)
C19_ArtifactImmutability ==
    [][\A j \in DOMAIN jobs :
        /\ Has(j, "split") =>
               /\ WrittenReport(j)' = WrittenReport(j)
               /\ Appendices(j)' = Appendices(j)
               /\ jobs'[j].split.written_report_pages = jobs[j].split.written_report_pages
               /\ jobs'[j].split.appendices_pages = jobs[j].split.appendices_pages
        /\ Has(j, "merge") =>
               /\ Recompiled(j)' = Recompiled(j)
               /\ jobs'[j].merge.recompiled_pages = jobs[j].merge.recompiled_pages
        /\ Has(j, "qc") =>
               qc_summaries'[jobs[j].qc.qc_summary_path]
                   = qc_summaries[jobs[j].qc.qc_summary_path]]_vars

(* C20 - Idempotence of merge and QC: a merge called again with no resolve  *)
(* or split since the last merge leaves the recompiled document and its      *)
(* recorded page count as they were; a run_qc called again with no merge     *)
(* since the last run_qc stores the same original_pages, recompiled_pages,   *)
(* page_count_match, blank_pages and qc_passed.                              *)
MergedLast(j) ==
    \/ stage[j] \in {"merged", "qc"}
    \/ Succeeded("merge") /\ result.job = j

QCLast(j) ==
    \/ stage[j] = "qc"
    \/ Succeeded("qc") /\ result.job = j

C20_Idempotence ==
    [][LET j == result'.job
       IN  /\ (result'.op = "merge" /\ result'.ok /\ Merge(j) /\ MergedLast(j)) =>
                  /\ files'[jobs'[j].merge.recompiled_path] = Recompiled(j)
                  /\ jobs'[j].merge.recompiled_pages = jobs[j].merge.recompiled_pages
           /\ (result'.op = "qc" /\ result'.ok /\ QC(j) /\ QCLast(j)) =>
                  /\ jobs'[j].qc.original_pages = QCReportOf(j).original_pages
                  /\ jobs'[j].qc.recompiled_pages = QCReportOf(j).recompiled_pages
                  /\ jobs'[j].qc.page_count_match = QCReportOf(j).page_count_match
                  /\ (IF "blank_pages_detected" \in DOMAIN jobs'[j].qc
                      THEN jobs'[j].qc.blank_pages_detected
                      ELSE jobs'[j].qc.blank_pages) = BlankList(j)
                  /\ jobs'[j].qc.qc_passed = QCReportOf(j).qc_passed]_vars

\* a merge has just been called again on a job that already went through
\* its merge and its QC under the same Structure and split
C20_Witness ==
    /\ Succeeded("merge")
    /\ stage[result.job] = "merged"
    /\ Has(result.job, "qc")
    /\ jobs[result.job].qc.recompiled_pages = 3
    /\ jobs[result.job].structure.front_matter_range[1] > 0

(* C21 - Failed intake: an intake whose document is missing or cannot be    *)
(* read returns an error and leaves the job store as it was: no job id is    *)
(* added and no field of an existing job changes.                            *)
C21_FailedIntake ==
    [][(result'.op = "upload" /\ ~result'.ok) =>
           /\ result'.msg \in {"File not found", "file_base64 is required",
                               "Error processing PDF"}
           /\ DOMAIN jobs' = DOMAIN jobs
           /\ \A j \in DOMAIN jobs : jobs'[j] = jobs[j]]_vars

\* an unreadable upload was refused while the store held a job that had
\* been split and merged
C21_Witness ==
    /\ result.op = "upload" /\ ~result.ok
    /\ result.msg = "Error processing PDF"
    /\ Has("j1", "merge")
    /\ jobs["j1"].page_count = 3

(* C22 - Unknown job: resolve, split, merge, run_qc and the listing, called *)
(* with a job id the store does not hold, each return a not-found error,     *)
(* create no job under that id and leave every existing job unchanged.       *)
C22_UnknownJob ==
    [][(/\ result'.op \in {"resolve", "split", "merge", "qc", "downloads"}
        /\ result'.job \notin DOMAIN jobs) =>
           /\ ~result'.ok
           /\ result'.msg = "Job not found"
           /\ DOMAIN jobs' = DOMAIN jobs
           /\ \A j \in DOMAIN jobs : jobs'[j] = jobs[j]]_vars

(* C23 - Artifact listing: for an existing job the listing holds a written  *)
(* report entry and an appendices entry exactly when the job has split       *)
(* artifacts, a recompiled entry exactly when it has a merge artifact and a  *)
(* QC summary entry exactly when it has a QC report, each with the page      *)
(* count its stage recorded (one page for the summary); it is empty, with    *)
(* the nothing-generated message, exactly when the job has none of the       *)
(* three; and the call changes nothing of the job.                           *)
Entries(listing, name) == {i \in DOMAIN listing : listing[i][1] = name}

Lists(listing, name, pages) ==
    /\ Cardinality(Entries(listing, name)) = 1
    /\ \A i \in Entries(listing, name) : listing[i][3] = pages

C23_ArtifactListing ==
    [][(result'.op = "downloads" /\ result'.job \in DOMAIN jobs) =>
           LET job == jobs[result'.job]
               listing == result'.files
           IN  /\ result'.ok
               /\ IF "split" \in DOMAIN job
                  THEN /\ Lists(listing, "Written Report", job.split.written_report_pages)
                       /\ Lists(listing, "Appendices", job.split.appendices_pages)
                  ELSE /\ Entries(listing, "Written Report") = {}
                       /\ Entries(listing, "Appendices") = {}
               /\ IF "merge" \in DOMAIN job
                  THEN Lists(listing, "Recompiled", job.merge.recompiled_pages)
                  ELSE Entries(listing, "Recompiled") = {}
               /\ IF "qc" \in DOMAIN job
                  THEN Lists(listing, "QC Summary", 1)
                  ELSE Entries(listing, "QC Summary") = {}
               /\ listing = << >> <=> {"split", "merge", "qc"} \cap DOMAIN job = {}
               /\ result'.msg = "No output files generated yet" <=> listing = << >>
               /\ Untouched
               /\ UNCHANGED stage]_vars

\* the listing of a job that was split, merged and checked has four entries
C23_Witness ==
    /\ Succeeded("downloads")
    /\ Len(result.files) = 4
    /\ Has(result.job, "qc")

\* the listing of a job that was only resolved is empty
C23_WitnessEmpty ==
    /\ Succeeded("downloads")
    /\ result.files = << >>
    /\ Has(result.job, "structure")

(* C24 - Re-resolve frame: a successful resolve of a job that already has   *)
(* a Structure stores the Structure of the new boundaries in its place and   *)
(* leaves the job's split record, merge record and QC report, and every      *)
(* artifact file, exactly as they were.                                      *)
C24_ReResolveFrame ==
    [][(result'.op = "resolve" /\ result'.ok /\ Has(result'.job, "structure")) =>
           LET j == result'.job
           IN  /\ \E e \in PageInputs, a \in PageInputs :
                      /\ Accepted(e, a, jobs[j].page_count)
                      /\ Resolve(j, e, a)
                      /\ jobs'[j].structure.front_matter_range
                             = (IF e = 1 THEN <<0, 0>> ELSE <<1, e - 1>>)
                      /\ jobs'[j].structure.written_report_range = <<e, a - 1>>
                      /\ jobs'[j].structure.appendices_range = <<a, jobs[j].page_count>>
               /\ \A key \in {"split", "merge", "qc"} :
                      /\ key \in DOMAIN jobs'[j] <=> key \in DOMAIN jobs[j]
                      /\ key \in DOMAIN jobs[j] => jobs'[j][key] = jobs[j][key]
               /\ UNCHANGED <<files, qc_summaries>>]_vars

\* a job that was split, merged and checked under one Structure has just
\* been resolved again with other boundaries
C24_Witness ==
    /\ Succeeded("resolve")
    /\ Has(result.job, "qc")
    /\ jobs[result.job].split.written_report_pages
           # SpanPages(jobs[result.job].structure.written_report_range)

(* C25 - Content preservation in every state: whenever a job has a merge    *)
(* artifact, the recorded recompiled page count equals the original page     *)
(* count and the recompiled document is the original, page for page, also    *)
(* when a resolve was called between the split and the merge.                *)
C25_ContentPreservation ==
    \A j \in DOMAIN jobs :
        "merge" \in DOMAIN jobs[j] =>
            /\ jobs[j].merge.recompiled_pages = jobs[j].page_count
            /\ Recompiled(j) = Original(j)

(* C26 - QC report currency: whenever a job has both a QC report and a      *)
(* merge artifact, the report's recompiled_pages is the page count recorded  *)
(* for that merge artifact, its page_count_match says whether that count     *)
(* equals the original's, and it passes only if they are equal.              *)
C26_QCReportCurrent ==
    \A j \in DOMAIN jobs :
        ("qc" \in DOMAIN jobs[j] /\ "merge" \in DOMAIN jobs[j]) =>
            /\ jobs[j].qc.recompiled_pages = jobs[j].merge.recompiled_pages
            /\ jobs[j].qc.page_count_match
                   = (jobs[j].page_count = jobs[j].merge.recompiled_pages)
            /\ jobs[j].qc.qc_passed => jobs[j].page_count = jobs[j].merge.recompiled_pages

(* C27 - Cross-job isolation: a call made with job id A leaves every other  *)
(* job B as it was: its record (Structure, split, merge and QC data, page    *)
(* count, document path), its original document, its artifact files and     *)
(* its QC summary.                                                           *)
C27_CrossJobIsolation ==
    [][\A b \in DOMAIN jobs :
           b # result'.job =>
               /\ b \in DOMAIN jobs'
               /\ jobs'[b] = jobs[b]
               /\ files'[jobs[b].file_path] = files[jobs[b].file_path]
               /\ \A name \in {"written_report", "appendices", "recompiled"} :
                      Path(b, name) \in DOMAIN files =>
                          files'[Path(b, name)] = files[Path(b, name)]
               /\ Path(b, "qc_summary") \in DOMAIN qc_summaries =>
                      qc_summaries'[Path(b, "qc_summary")] = qc_summaries[Path(b, "qc_summary")]]_vars

(* C28 - Implementation equivalence: the agent tools and the server, given  *)
(* the same document and the same sequence of calls, accept and refuse the   *)
(* same calls and record, after every call, the same three ranges, the same  *)
(* split page counts, the same recompiled page count and the same            *)
(* page_count_match, blank pages and qc_passed.                              *)
SameRecord(key, fields) ==
    /\ Has("j1", key) <=> Has("j2", key)
    /\ Has("j1", key) => \A f \in fields : jobs["j1"][key][f] = jobs["j2"][key][f]

SameObservations ==
    /\ HasJob("j1") <=> HasJob("j2")
    /\ HasJob("j1") => jobs["j1"].page_count = jobs["j2"].page_count
    /\ SameRecord("structure", {"front_matter_range", "written_report_range", "appendices_range"})
    /\ SameRecord("split", {"written_report_pages", "appendices_pages"})
    /\ SameRecord("merge", {"recompiled_pages"})
    /\ SameRecord("qc", {"page_count_match", "qc_passed"})
    /\ Has("j1", "qc") => BlankList("j1") = BlankList("j2")

C28_ImplementationEquivalence ==
    [][(result.job = "j1" /\ result'.job = "j2") =>
           /\ result'.op = result.op
           /\ result'.ok = result.ok
           /\ SameObservations']_vars

(* C29 - Job identity: every successful intake registers the new job under  *)
(* an id the store did not hold; the new job has its intake data and no      *)
(* Structure, split, merge or QC record; no job already in the store is      *)
(* altered.                                                                  *)
C29_JobIdentity ==
    [][(result'.op = "upload" /\ result'.ok) =>
           LET j == result'.job
           IN  /\ j \notin DOMAIN jobs
               /\ DOMAIN jobs'[j] = {"file_path", "page_count"}
               /\ \A b \in DOMAIN jobs : jobs'[b] = jobs[b]]_vars

(* C30 - Structure well-formedness: every Structure in the store has        *)
(* 1 <= exec_summary_page < appendix_start_page <= page count of its job,    *)
(* so the written report and appendices ranges are not empty and all three   *)
(* ranges, the pages split and merge read, lie within 1 .. page count.       *)
C30_StructureWellFormed ==
    \A j \in DOMAIN jobs :
        "structure" \in DOMAIN jobs[j] =>
            LET st == jobs[j].structure
                pages == 1 .. jobs[j].page_count
            IN  /\ 1 <= st.exec_summary_page
                /\ st.exec_summary_page < st.appendix_start_page
                /\ st.appendix_start_page <= jobs[j].page_count
                /\ RangeSet(st.written_report_range) # {}
                /\ RangeSet(st.appendices_range) # {}
                /\ RangeSet(st.front_matter_range) \subseteq pages
                /\ RangeSet(st.written_report_range) \subseteq pages
                /\ RangeSet(st.appendices_range) \subseteq pages

(* C31 - No partial split result: a split that fails with an I/O error,     *)
(* also one that fails after written_report.pdf was written and before      *)
(* appendices.pdf was, leaves the job's split record and the files it names  *)
(* as they were, so the recorded page counts are still the page counts of    *)
(* the files.                                                                *)
C31_NoPartialSplit ==
    [][(result'.op = "split" /\ ~result'.ok /\ result'.msg = "OSError") =>
           LET j == result'.job
           IN  /\ Has(j, "split") <=> "split" \in DOMAIN jobs'[j]
               /\ Has(j, "split") =>
                      /\ jobs'[j].split = jobs[j].split
                      /\ files'[jobs[j].split.written_report_path] = WrittenReport(j)
                      /\ files'[jobs[j].split.appendices_path] = Appendices(j)
                      /\ Len(files'[jobs[j].split.written_report_path])
                             = jobs[j].split.written_report_pages
                      /\ Len(files'[jobs[j].split.appendices_path])
                             = jobs[j].split.appendices_pages]_vars

(* C32 - Recovery to a passing QC: from any state of a job that has a       *)
(* Structure, whatever artifacts earlier calls left behind, a split, then a  *)
(* merge, then a run_qc, with no resolve in between and no I/O failure,      *)
(* ends with a QC report whose page_count_match and qc_passed are both true. *)
(* Stated call by call: the split succeeds and leaves the artifacts of the   *)
(* current Structure; a merge that follows it succeeds and leaves a copy of  *)
(* the original; a run_qc that follows that merge reports both true.         *)
FreshSplit(j) ==
    /\ Has(j, "split")
    /\ WrittenReport(j) = SubSeq(Original(j), jobs[j].structure.written_report_range[1],
                                 jobs[j].structure.written_report_range[2])
    /\ Appendices(j) = SubSeq(Original(j), jobs[j].structure.appendices_range[1],
                              jobs[j].structure.appendices_range[2])

FreshMerge(j) ==
    /\ Has(j, "merge")
    /\ Recompiled(j) = Original(j)
    /\ jobs[j].merge.recompiled_pages = jobs[j].page_count

Followed(op, j) == result.op = op /\ result.ok /\ result.job = j

C32_Recovery ==
    [][\A j \in JobIds :
           /\ (result'.job = j /\ result'.op = "split" /\ Has(j, "structure")) =>
                  /\ result'.ok
                  /\ FreshSplit(j)'
           /\ (result'.job = j /\ result'.op = "merge" /\ Followed("split", j) /\ FreshSplit(j)) =>
                  /\ result'.ok
                  /\ FreshMerge(j)'
           /\ (result'.job = j /\ result'.op = "qc" /\ Followed("merge", j) /\ FreshMerge(j)) =>
                  /\ result'.ok
                  /\ jobs'[j].qc.page_count_match
                  /\ jobs'[j].qc.qc_passed]_vars

=============================================================================
